---- MODULE Spec2Model ----
(***************************************************************************)
(* A model of the Terbium semantic analyzer (terbium_analyzer/src/lib.rs): *)
(* the Type Model (operator outcomes, flatten), the Scope Store (scope     *)
(* stack, lookup, close_var_match, exit_scope) and the Tree Walker         *)
(* (visit_node, visit_expr, run_analysis).                                 *)
(*                                                                         *)
(* Five specifications share the variables:                                *)
(*   Spec       the tree walker run by run_analysis on a syntax tree that  *)
(*              is chosen node by node;                                    *)
(*   TypeSpec   the pure functions of the Type Model applied to operands   *)
(*              drawn from a bounded universe of types;                    *)
(*   MatchSpec  Context::close_var_match applied to scope stacks and       *)
(*              queries drawn from bounded sets;                           *)
(*   SetSpec    the constructors of AnalyzerSet applied to bounded sets of *)
(*              categories;                                                *)
(*   InferSpec  infer_type applied to bounded expression trees.            *)
(***************************************************************************)
EXTENDS Integers, Sequences, FiniteSets

VARIABLES
    analyzers,  \* the AnalyzerSet handed to run_analysis
    scopes,     \* Context::scopes, index 1 = top level, last = innermost
    messages,   \* the Vec<AnalyzerMessage> run_analysis accumulates
    ctl,        \* the walker's position: for each enclosing body, "branch"
                \* (an if / else-if body: an else-if or else may follow) or
                \* "tail" (an else or while body: visit_expr returns after it)
    pos,        \* number of span-carrying nodes consumed so far
    result,     \* "running", or how run_analysis ended: "Ok", "Err", "Panic"
    last,       \* the node handled by the latest step
    tA, tB, tOp, tOut, tPrev, tPhase,   \* TypeSpec: operands, operator, outcome
    mq, mres, mphase,                   \* MatchSpec: query and returned match
    sAllowed, sDisabled, sCall,         \* SetSpec: arguments, constructor called
    iExpr, iTy, iPhase                  \* InferSpec: expression, inferred type

walkVars == <<analyzers, scopes, messages, ctl, pos, result, last>>
typeVars == <<tA, tB, tOp, tOut, tPrev, tPhase>>
matchVars == <<mq, mres, mphase>>
setVars == <<sAllowed, sDisabled, sCall>>
inferVars == <<iExpr, iTy, iPhase>>
vars == <<analyzers, scopes, messages, ctl, pos, result, last,
          tA, tB, tOp, tOut, tPrev, tPhase, mq, mres, mphase,
          sAllowed, sDisabled, sCall, iExpr, iTy, iPhase>>

(***************************************************************************)
(* Type Model                                                              *)
(***************************************************************************)

\* enum PrimitiveType
PrimitiveType == {"Int", "Float", "String", "Bool"}

\* enum Type; Option<u32> is <<>> (None) or <<n>> (Some(n)), where the u32 n
\* is kept as two 16-bit halves, n = hi * Half + lo
Primitive(p) == [k |-> "Primitive", p |-> p]
Union(a, b) == [k |-> "Union", a |-> a, b |-> b]
And(a, b) == [k |-> "And", a |-> a, b |-> b]
Array(ty, len) == [k |-> "Array", elem |-> ty, len |-> len]
Tuple(items) == [k |-> "Tuple", items |-> items]
Func(params, ret) == [k |-> "Func", params |-> params, ret |-> ret]
Null == [k |-> "Null"]
Any == [k |-> "Any"]
Unknown == [k |-> "Unknown"]
Deferred(d) == [k |-> "Deferred", d |-> d]

\* enum DeferredType
TypeOf(ptr) == [d |-> "TypeOf", ptr |-> ptr]
Known(ty) == [d |-> "Known", ty |-> ty]
ApplyUnary(op, d) == [d |-> "ApplyUnary", op |-> op, x |-> d]
ApplyBinary(op, a, b) == [d |-> "ApplyBinary", op |-> op, x |-> a, y |-> b]

\* Option<Type>::None, the "unsupported" outcome of the op-outcome functions
Unsupported == [k |-> "None"]

\* the operators lib.rs names in its match arms
ArithmeticOps == {"Add", "Sub", "Mul", "Div", "Pow", "Mod"}
BitwiseOps == {"BitOr", "BitAnd", "BitXor", "BitLShift", "BitRShift"}
ComparisonOps == {"Lt", "Le", "Gt", "Ge", "Eq", "Ne"}
UnaryOnlyOps == {"Not", "BitNot"}
Operator == ArithmeticOps \cup BitwiseOps \cup ComparisonOps \cup UnaryOnlyOps

\* u32 values as two 16-bit halves; u32 addition wraps modulo 2^32
Half == 65536
U32(hi, lo) == [hi |-> hi, lo |-> lo]
U32Add(x, y) ==
    LET lo == x.lo + y.lo
        hi == x.hi + y.hi + (lo \div Half)
    IN  U32(hi % Half, lo % Half)

\* Option::and / Option::or on outcomes
OptAnd(x, y) == IF x = Unsupported THEN Unsupported ELSE y
OptOr(x, y) == IF x # Unsupported THEN x ELSE y

PrimUnaryOutcomeNotOnBool(p, op) ==
    CASE op = "Not" /\ p = "Bool" -> Primitive("Bool")
      [] op \in {"Add", "Sub"} /\ p \in {"Int", "Float"} -> Primitive(p)
      [] op = "BitNot" /\ p = "Int" -> Primitive("Int")
      [] OTHER -> Unsupported

\* PrimitiveType::get_unary_op_outcome
PrimUnaryOutcome(p, op) ==
    CASE op = "Not" -> Primitive("Bool")
      [] op \in {"Add", "Sub"} /\ p \in {"Int", "Float"} -> Primitive(p)
      [] op = "BitNot" /\ p = "Int" -> Primitive("Int")
      [] OTHER -> Unsupported

PrimBinaryOutcomeFloatFirst(p, op, other) ==
    LET numeric == other.k = "Primitive" /\ other.p \in {"Float", "Int"} IN
    CASE p \in {"Float", "Int"} /\ op \in ArithmeticOps /\ numeric
            -> Primitive("Float")
      [] p = "Int" /\ op \in ArithmeticOps \cup BitwiseOps
            /\ other = Primitive("Int") -> Primitive("Int")
      [] p \in {"Float", "Int"} /\ op \in ComparisonOps /\ numeric
            -> Primitive("Bool")
      [] p = "String" /\ op \in {"Add", "Mul"} /\ other = Primitive("String")
            -> Primitive("String")
      [] OTHER -> Unsupported

\* PrimitiveType::get_binary_op_outcome: the first matching arm wins
PrimBinaryOutcome(p, op, other) ==
    LET numeric == other.k = "Primitive" /\ other.p \in {"Float", "Int"} IN
    IF p = "Int" /\ op \in ArithmeticOps \cup BitwiseOps
            /\ other = Primitive("Int")
    THEN Primitive("Int")
    ELSE IF p \in {"Float", "Int"} /\ op \in ArithmeticOps /\ numeric
    THEN Primitive("Float")
    ELSE IF p \in {"Float", "Int"} /\ op \in ComparisonOps /\ numeric
    THEN Primitive("Bool")
    ELSE IF p = "String" /\ op \in {"Add", "Mul"} /\ other = Primitive("String")
    THEN Primitive("String")
    ELSE Unsupported

\* Type::get_unary_op_outcome
RECURSIVE UnaryOutcome(_, _)
UnaryOutcome(t, op) ==
    IF t.k = "Deferred" THEN Deferred(ApplyUnary(op, t.d))
    ELSE IF t.k = "Primitive" THEN PrimUnaryOutcome(t.p, op)
    ELSE IF t.k = "Union"
    THEN OptAnd(UnaryOutcome(t.a, op), UnaryOutcome(t.b, op))
    ELSE IF t.k = "And"
    THEN OptOr(UnaryOutcome(t.a, op), UnaryOutcome(t.b, op))
    ELSE IF op = "Not" THEN Primitive("Bool")
    ELSE IF t.k \in {"Any", "Unknown"} THEN t
    ELSE Unsupported

\* the Array + Array arm: len_a.map(|l| l + len_b.unwrap_or(0))
ArrayAddLen(lenA, lenB) ==
    IF lenA = <<>> THEN <<>>
    ELSE <<U32Add(lenA[1], IF lenB = <<>> THEN U32(0, 0) ELSE lenB[1])>>

\* Type::get_binary_op_outcome: the arms in source order, first match wins
RECURSIVE BinaryOutcome(_, _, _)
BinaryOutcome(t, op, other) ==
    IF t.k = "Deferred" /\ other.k = "Deferred"
    THEN Deferred(ApplyBinary(op, t.d, other.d))
    ELSE IF t.k = "Primitive" THEN PrimBinaryOutcome(t.p, op, other)
    ELSE IF t.k = "Union"
    THEN OptAnd(BinaryOutcome(t.a, op, other), BinaryOutcome(t.b, op, other))
    ELSE IF other.k = "Union"
    THEN OptAnd(BinaryOutcome(other.a, op, t), BinaryOutcome(other.b, op, t))
    ELSE IF t.k = "And"
    THEN OptOr(BinaryOutcome(t.a, op, other), BinaryOutcome(t.b, op, other))
    ELSE IF other.k = "And"
    THEN OptOr(BinaryOutcome(other.a, op, t), BinaryOutcome(other.b, op, t))
    ELSE IF t.k = "Array" /\ op = "Add" /\ other.k = "Array"
    THEN Array(Union(t.elem, other.elem), ArrayAddLen(t.len, other.len))
    ELSE IF t.k = "Tuple" /\ op = "Add" /\ other.k = "Tuple"
    THEN Tuple(t.items \o other.items)
    ELSE IF t.k = "Any" \/ other.k = "Any" THEN Any
    ELSE IF t.k = "Unknown" \/ other.k = "Unknown" THEN Unknown
    ELSE Unsupported

FlattenShallow(t) ==
    IF t.k \in {"Union", "And"} /\ t.a = t.b THEN t.a ELSE t

\* Type::flatten
RECURSIVE Flatten(_)
Flatten(t) ==
    IF t.k \in {"Union", "And"} /\ t.a = t.b THEN Flatten(t.a) ELSE t

(***************************************************************************)
(* The bounded universe of types the Type Model is applied to.             *)
(***************************************************************************)

\* types without Union/And at the top
BaseTypes ==
    {Primitive(p) : p \in PrimitiveType}
    \cup {Null, Any, Unknown}
    \cup {Deferred(TypeOf(1)), Deferred(Known(Primitive("Int")))}
    \cup {Array(Primitive("Int"), <<U32(0, 2)>>), Array(Primitive("Float"), <<>>)}
    \cup {Tuple(<<Primitive("Int"), Null>>)}
    \cup {Func(<<Primitive("Int")>>, Primitive("Bool"))}

\* the operands of the unions and intersections of the universe
ComposeTypes ==
    {Primitive("Int"), Primitive("Float"), Primitive("String"), Null, Any,
     Unknown}

Level1Types ==
    BaseTypes
    \cup {Union(a, b) : a, b \in ComposeTypes}
    \cup {And(a, b) : a, b \in ComposeTypes}
    \cup {Union(Primitive("Int"), Deferred(TypeOf(1))),
          Union(Deferred(TypeOf(1)), Primitive("Int")),
          And(Deferred(TypeOf(1)), Primitive("Int")),
          And(Null, Deferred(TypeOf(1)))}

\* one more level of equal-operand and mixed compositions, for flatten
Level2Types ==
    Level1Types
    \cup {Union(a, a) : a \in Level1Types}
    \cup {And(a, a) : a \in Level1Types}
    \cup {Union(Union(a, a), a) : a \in ComposeTypes}
    \cup {And(a, Union(a, a)) : a \in ComposeTypes}

\* right operands of the binary operators
RightTypes ==
    BaseTypes
    \cup {Union(Primitive("Int"), Primitive("Float")),
          Union(Null, Null),
          And(Primitive("Int"), Primitive("String")),
          And(Null, Any)}

NoType == [k |-> "NoType"]

NoNode == [node |-> "none"]

\* the walker's variables while another specification runs
WalkIdle ==
    /\ analyzers = {}
    /\ scopes = <<>>
    /\ messages = <<>>
    /\ ctl = <<>>
    /\ pos = 0
    /\ result = "idle"
    /\ last = NoNode

MatchIdle ==
    /\ mq = ""
    /\ mres = <<>>
    /\ mphase = "idle"

SetIdle ==
    /\ sAllowed = {}
    /\ sDisabled = {}
    /\ sCall = "idle"

InferIdle ==
    /\ iExpr = NoNode
    /\ iTy = NoType
    /\ iPhase = "idle"

TypeIdle ==
    /\ tA = NoType
    /\ tB = NoType
    /\ tOp = "none"
    /\ tOut = NoType
    /\ tPrev = NoType
    /\ tPhase = "idle"

(***************************************************************************)
(* TypeSpec: one call of a Type Model function per behaviour.  The inputs  *)
(* are a unary call (operand, operator), a binary call (two operands,      *)
(* operator) or a flatten call (operand).                                  *)
(***************************************************************************)
TypeInit ==
    /\ WalkIdle
    /\ MatchIdle
    /\ SetIdle
    /\ InferIdle
    /\ tOut = NoType
    /\ tPrev = NoType
    /\ tPhase = "input"
    /\ \/ tA \in Level1Types /\ tB \in RightTypes /\ tOp \in Operator
       \/ tA \in Level1Types /\ tB = NoType /\ tOp \in Operator
       \/ tA \in Level2Types /\ tB = NoType /\ tOp = "none"

\* lhs_t.get_binary_op_outcome(op, &rhs_t)
CallBinaryOutcome ==
    /\ tPhase = "input" /\ tB # NoType
    /\ tOut' = BinaryOutcome(tA, tOp, tB)
    /\ tPhase' = "binary"
    /\ UNCHANGED <<tA, tB, tOp, tPrev>>
    /\ UNCHANGED walkVars /\ UNCHANGED matchVars
    /\ UNCHANGED setVars /\ UNCHANGED inferVars

\* t.get_unary_op_outcome(op)
CallUnaryOutcome ==
    /\ tPhase = "input" /\ tB = NoType /\ tOp # "none"
    /\ tOut' = UnaryOutcome(tA, tOp)
    /\ tPhase' = "unary"
    /\ UNCHANGED <<tA, tB, tOp, tPrev>>
    /\ UNCHANGED walkVars /\ UNCHANGED matchVars
    /\ UNCHANGED setVars /\ UNCHANGED inferVars

\* a.flatten()
CallFlatten ==
    /\ tPhase = "input" /\ tOp = "none"
    /\ tOut' = Flatten(tA)
    /\ tPhase' = "flatten"
    /\ UNCHANGED <<tA, tB, tOp, tPrev>>
    /\ UNCHANGED walkVars /\ UNCHANGED matchVars
    /\ UNCHANGED setVars /\ UNCHANGED inferVars

\* a.flatten().flatten(), keeping the first result in tPrev
CallFlattenAgain ==
    /\ tPhase = "flatten"
    /\ tPrev' = tOut
    /\ tOut' = Flatten(tOut)
    /\ tPhase' = "flatten2"
    /\ UNCHANGED <<tA, tB, tOp>>
    /\ UNCHANGED walkVars /\ UNCHANGED matchVars
    /\ UNCHANGED setVars /\ UNCHANGED inferVars

\* Type::Union(a, a).flatten(), keeping a.flatten() in tPrev
CallFlattenUnion ==
    /\ tPhase = "flatten"
    /\ tPrev' = tOut
    /\ tOut' = Flatten(Union(tA, tA))
    /\ tPhase' = "flattenUnion"
    /\ UNCHANGED <<tA, tB, tOp>>
    /\ UNCHANGED walkVars /\ UNCHANGED matchVars
    /\ UNCHANGED setVars /\ UNCHANGED inferVars

\* Type::And(a, a).flatten(), keeping a.flatten() in tPrev
CallFlattenAnd ==
    /\ tPhase = "flatten"
    /\ tPrev' = tOut
    /\ tOut' = Flatten(And(tA, tA))
    /\ tPhase' = "flattenAnd"
    /\ UNCHANGED <<tA, tB, tOp>>
    /\ UNCHANGED walkVars /\ UNCHANGED matchVars
    /\ UNCHANGED setVars /\ UNCHANGED inferVars

TypeNext ==
    \/ CallBinaryOutcome
    \/ CallUnaryOutcome
    \/ CallFlatten
    \/ CallFlattenAgain
    \/ CallFlattenUnion
    \/ CallFlattenAnd

TypeSpec == TypeInit /\ [][TypeNext]_vars

(***************************************************************************)
(* Claims about the Type Model, checked under TypeSpec.                    *)
(***************************************************************************)

\* C7: binary_outcome with Any on either side yields Any, with Unknown on
\* either side (and no Any) yields Unknown, whatever the other operand is;
\* Any op Unknown yields Any.
C7_AnyUnknownAbsorb ==
    tPhase = "binary" =>
        /\ (tA = Any \/ tB = Any) => tOut = Any
        /\ ((tA = Unknown \/ tB = Unknown) /\ tA # Any /\ tB # Any)
              => tOut = Unknown

\* C8: for operand types drawn from {Int, Float} and every arithmetic
\* operator, binary_outcome is supported and yields Float if either operand
\* is Float and Int if both are Int.
C8_IntFloatArithmetic ==
    (/\ tPhase = "binary"
     /\ tA \in {Primitive("Int"), Primitive("Float")}
     /\ tB \in {Primitive("Int"), Primitive("Float")}
     /\ tOp \in {"Add", "Sub", "Mul", "Div", "Pow", "Mod"})
    => /\ tOut # Unsupported
       /\ tOut = IF tA = Primitive("Float") \/ tB = Primitive("Float")
                 THEN Primitive("Float")
                 ELSE Primitive("Int")

C8_Witness ==
    /\ tPhase = "binary"
    /\ tA = Primitive("Int") /\ tB = Primitive("Float") /\ tOp = "Pow"
    /\ tOut = Primitive("Float")

\* C9: flatten(Union(A,A)) = flatten(A), flatten(And(A,A)) = flatten(A), and
\* flatten(flatten(T)) = flatten(T): in each case the second call's result
\* (tOut) equals the result of flatten on the operand itself (tPrev).
C9_FlattenIdempotent ==
    tPhase \in {"flatten2", "flattenUnion", "flattenAnd"} => tOut = tPrev

C9_Witness ==
    /\ tPhase = "flattenUnion"
    /\ tA = Union(Primitive("Int"), Primitive("Int"))
    /\ tOut = Primitive("Int")

Supported(t) == t # Unsupported

\* C12: Union and And distribute over binary operators in both operand
\* positions: with a Union on one side the outcome is supported iff it is
\* supported for both members (against the same other operand, on the same
\* side), with an And iff it is supported for at least one member.
C12_UnionAndDistribute ==
    tPhase = "binary" =>
        /\ tA.k = "Union" =>
              (Supported(tOut) <=> /\ Supported(BinaryOutcome(tA.a, tOp, tB))
                                   /\ Supported(BinaryOutcome(tA.b, tOp, tB)))
        /\ tB.k = "Union" =>
              (Supported(tOut) <=> /\ Supported(BinaryOutcome(tA, tOp, tB.a))
                                   /\ Supported(BinaryOutcome(tA, tOp, tB.b)))
        /\ tA.k = "And" =>
              (Supported(tOut) <=> \/ Supported(BinaryOutcome(tA.a, tOp, tB))
                                   \/ Supported(BinaryOutcome(tA.b, tOp, tB)))
        /\ tB.k = "And" =>
              (Supported(tOut) <=> \/ Supported(BinaryOutcome(tA, tOp, tB.a))
                                   \/ Supported(BinaryOutcome(tA, tOp, tB.b)))

\* C13: Add on Array(Ta, la) and Array(Tb, lb) yields Array(Union(Ta, Tb), l)
\* with l the fixed length la + lb when both lengths are fixed, and no fixed
\* length when either operand has none.
C13_ArrayAdd ==
    (/\ tPhase = "binary" /\ tOp = "Add"
     /\ tA.k = "Array" /\ tB.k = "Array")
    => /\ tOut.k = "Array"
       /\ tOut.elem = Union(tA.elem, tB.elem)
       /\ (tA.len = <<>> \/ tB.len = <<>>) => tOut.len = <<>>
       /\ (tA.len # <<>> /\ tB.len # <<>>) =>
             /\ tOut.len # <<>>
             /\ tOut.len[1].hi * Half + tOut.len[1].lo
                  = (tA.len[1].hi + tB.len[1].hi) * Half
                      + tA.len[1].lo + tB.len[1].lo

\* no Deferred type at the top or among the members of a union or
\* intersection, at any nesting
RECURSIVE NoDeferredMember(_)
NoDeferredMember(t) ==
    IF t.k = "Deferred" THEN FALSE
    ELSE IF t.k \in {"Union", "And"}
    THEN NoDeferredMember(t.a) /\ NoDeferredMember(t.b)
    ELSE TRUE

\* C14 (as stated): unary_outcome with logical-not is supported and yields
\* Primitive(Bool) for every operand type, deferred types included.
C14_Original ==
    (tPhase = "unary" /\ tOp = "Not") => tOut = Primitive("Bool")

\* C14 (amended): unary_outcome with logical-not yields Primitive(Bool) for
\* every operand type that is not Deferred and has no Deferred member under
\* its unions and intersections; on a Deferred operand it yields the
\* Deferred ApplyUnary node.
C14_NotYieldsBool ==
    (tPhase = "unary" /\ tOp = "Not") =>
        /\ NoDeferredMember(tA) => tOut = Primitive("Bool")
        /\ tA.k = "Deferred" => tOut = Deferred(ApplyUnary("Not", tA.d))

\* !(Int & String): the And arm, then the primitives' Not arm
C14_Witness ==
    /\ tPhase = "unary" /\ tOp = "Not"
    /\ tA = And(Primitive("Int"), Primitive("String"))
    /\ tOut = Primitive("Bool")

\* C15: an operator applied to a Deferred operand is never unsupported: a
\* unary operator yields the Deferred ApplyUnary node, a binary operator
\* with a Deferred operand on either side yields a result, the Deferred
\* ApplyBinary node when both operands are Deferred.
C15_DeferredNeverFails ==
    /\ (tPhase = "unary" /\ tA.k = "Deferred")
          => tOut = Deferred(ApplyUnary(tOp, tA.d))
    /\ (tPhase = "binary" /\ (tA.k = "Deferred" \/ tB.k = "Deferred"))
          => /\ Supported(tOut)
             /\ (tA.k = "Deferred" /\ tB.k = "Deferred")
                   => tOut = Deferred(ApplyBinary(tOp, tA.d, tB.d))

(***************************************************************************)
(* Names.  An identifier is a string; Chars gives its characters, which    *)
(* starts_with('_'), chars().count(), to_snake_case and the Levenshtein    *)
(* distance read.                                                          *)
(***************************************************************************)

\* the identifiers of the walked programs
WalkNames == {"x", "_u", "_U"}

\* the identifiers close_var_match is applied to under MatchSpec
MatchNames ==
    {"x", "_u", "calculate_total", "calculate_totals", "calculate_total_ab"}

Names == WalkNames \cup MatchNames

Chars ==
    [n \in Names |->
        CASE n = "x" -> <<"x">>
          [] n = "_u" -> <<"_", "u">>
          [] n = "_U" -> <<"_", "U">>
          [] n = "calculate_total" ->
                <<"c", "a", "l", "c", "u", "l", "a", "t", "e", "_",
                  "t", "o", "t", "a", "l">>
          [] n = "calculate_totals" ->
                <<"c", "a", "l", "c", "u", "l", "a", "t", "e", "_",
                  "t", "o", "t", "a", "l", "s">>
          [] n = "calculate_total_ab" ->
                <<"c", "a", "l", "c", "u", "l", "a", "t", "e", "_",
                  "t", "o", "t", "a", "l", "_", "a", "b">>]

\* entry.name.starts_with('_')
StartsWithUnderscore(n) == Len(Chars[n]) > 0 /\ Chars[n][1] = "_"

IsUpper(c) == c = "U"
ToLower(c) == IF c = "U" THEN "u" ELSE c

\* util::to_snake_case: lower-cases, and starts a new word with '_' at an
\* upper-case letter that follows a letter
RECURSIVE SnakeFrom(_, _)
SnakeFrom(cs, i) ==
    IF i > Len(cs) THEN <<>>
    ELSE (IF IsUpper(cs[i]) /\ i > 1 /\ cs[i - 1] # "_"
          THEN <<"_", ToLower(cs[i])>>
          ELSE <<ToLower(cs[i])>>) \o SnakeFrom(cs, i + 1)

to_snake_case(n) == SnakeFrom(Chars[n], 1)

Min2(a, b) == IF a < b THEN a ELSE b

\* util::get_levenshtein_distance on two character sequences: the least
\* number of single-character insertions, deletions and substitutions that
\* turn a into b
RECURSIVE get_levenshtein_distance(_, _)
get_levenshtein_distance(a, b) ==
    IF a = <<>> THEN Len(b)
    ELSE IF b = <<>> THEN Len(a)
    ELSE IF Head(a) = Head(b)
         THEN get_levenshtein_distance(Tail(a), Tail(b))
    ELSE 1 + Min2(get_levenshtein_distance(Tail(a), Tail(b)),
                  Min2(get_levenshtein_distance(Tail(a), b),
                       get_levenshtein_distance(a, Tail(b))))

\* the distances between the identifiers, computed once
Distance ==
    [q \in Names, n \in Names |->
        get_levenshtein_distance(Chars[q], Chars[n])]

(***************************************************************************)
(* Scope Store                                                             *)
(***************************************************************************)

\* enum ScopeEntryModifier
ScopeEntryModifier == {"None", "Mut", "Const"}

\* a Span: <<p, 0>> is the p-th span-carrying node of the tree, <<p, j>>
\* its j-th target identifier
NodeSpan(p) == <<p, 0>>
TargetSpan(p, j) == <<p, j>>

\* MockScopeEntry::new (the walker passes no type: `ty` is the unit value)
MockScopeEntry(name, modifier, span) ==
    [name |-> name, modifier |-> modifier, used |-> FALSE,
     mutated |-> FALSE, span |-> span]

\* MockScope::new: a scope is a HashMap keyed by name, kept as the set of
\* its entries
MockScope == {}

\* MockScope::lookup / HashMap::get as an Option: <<>> or <<entry>>
ScopeGet(scope, name) ==
    IF \E e \in scope : e.name = name
    THEN <<CHOOSE e \in scope : e.name = name>>
    ELSE <<>>

\* Context::is_top_level
is_top_level(scs) == Len(scs) = 1

StoreVarOutermost(scs, name, entry) ==
    [scs EXCEPT ![1] = {e \in @ : e.name # name} \cup {entry}]

\* Context::store_var: HashMap::insert into the innermost scope
store_var(scs, name, entry) ==
    [scs EXCEPT ![Len(scs)] = {e \in @ : e.name # name} \cup {entry}]

\* index of the scope a lookup resolves in (0: not found), scanning
\* self.scopes.iter().rev()
RECURSIVE LookupFrom(_, _, _)
LookupFrom(scs, name, i) ==
    IF i = 0 THEN 0
    ELSE IF ScopeGet(scs[i], name) # <<>> THEN i
    ELSE LookupFrom(scs, name, i - 1)

LookupIndexOutermost(scs, name) ==
    IF \E i \in 1..Len(scs) : ScopeGet(scs[i], name) # <<>>
    THEN CHOOSE i \in 1..Len(scs) :
            /\ ScopeGet(scs[i], name) # <<>>
            /\ \A j \in 1..(i - 1) : ScopeGet(scs[j], name) = <<>>
    ELSE 0

LookupIndex(scs, name) == LookupFrom(scs, name, Len(scs))

\* Context::lookup_var as an Option
lookup_var(scs, name) ==
    IF LookupIndex(scs, name) = 0 THEN <<>>
    ELSE ScopeGet(scs[LookupIndex(scs, name)], name)

\* Context::lookup_var_mut followed by an update of the entry found
UpdateVar(scs, name, field, value) ==
    [scs EXCEPT ![LookupIndex(scs, name)] =
        {IF e.name = name THEN [e EXCEPT ![field] = value] ELSE e : e \in @}]

ThresholdNoFloor(name) == (14 * Len(Chars[name]) + 50) \div 100

\* (name.chars().count() as f64 * 0.14).round().max(2_f64) as usize
Threshold(name) ==
    LET rounded == (14 * Len(Chars[name]) + 50) \div 100
    IN  IF rounded > 2 THEN rounded ELSE 2

\* the loops of close_var_match from scope i outwards: the first entry
\* within the threshold in the scope's (arbitrary) HashMap iteration order
RECURSIVE CloseMatchFrom(_, _, _)
CloseMatchFrom(scs, name, i) ==
    IF i = 0 THEN {<<>>}
    ELSE LET close == {e \in scs[i] : Distance[name, e.name] <= Threshold(name)}
         IN  IF close # {} THEN {<<e.name, e.span>> : e \in close}
             ELSE CloseMatchFrom(scs, name, i - 1)

\* Context::close_var_match: the set of results it can return, an
\* Option<(String, Span)> each
close_var_match(scs, name) == CloseMatchFrom(scs, name, Len(scs))

enter_scope_twice(scs) == Append(Append(scs, MockScope), MockScope)

\* Context::enter_scope
enter_scope(scs) == Append(scs, MockScope)

(***************************************************************************)
(* Analyzer Registry and Diagnostic Model                                  *)
(***************************************************************************)

\* enum AnalyzerKind
AnalyzerKind ==
    {"NonSnakeCase", "NonPascalCase", "NonAscii", "UnusedVariables",
     "UnnecessaryMutVariables", "GlobalMutableVariables",
     "UnbalancedIfStatements", "UnresolvedIdentifiers",
     "RedeclaredConstVariables", "ReassignedImmutableVariables",
     "UnsupportedOperators", "IncompatibleTypes", "UninferableTypes"}

\* AnalyzerSet::all: the HashSet built from the listed categories
all ==
    {"NonSnakeCase", "NonPascalCase", "NonAscii", "UnusedVariables",
     "UnnecessaryMutVariables", "UnresolvedIdentifiers",
     "RedeclaredConstVariables", "ReassignedImmutableVariables",
     "GlobalMutableVariables", "UnsupportedOperators", "IncompatibleTypes",
     "UninferableTypes", "UnbalancedIfStatements"}

\* AnalyzerSet::none
none == {}

\* AnalyzerSet::from_disabled: Self::default() (= all) minus disabled
from_disabled(disabled) == all \ disabled

from_allowed_disabled_allow_wins(allowed, disabled) ==
    (all \ disabled) \cup allowed

\* AnalyzerSet::from_allowed_disabled
from_allowed_disabled(allowed, disabled) == (all \cup allowed) \ disabled

\* An AnalyzerMessage: its kind (Alert(kind)), its primary span, the span of
\* its first label, and what its labels and help text are formatted from.
Message(kind, name, span, first) ==
    [kind |-> kind, name |-> name, span |-> span, first |-> first,
     close |-> <<>>, was_const |-> FALSE, counterpart |-> <<>>]

\* AnalyzerMessage::non_snake_case
non_snake_case(name, counterpart, span) ==
    [Message("NonSnakeCase", name, span, span)
        EXCEPT !.counterpart = counterpart]

\* AnalyzerMessage::unnecessary_mut_variable
unnecessary_mut_variable(name, span) ==
    Message("UnnecessaryMutVariables", name, span, span)

\* AnalyzerMessage::unused_variable
unused_variable(name, span) == Message("UnusedVariables", name, span, span)

\* AnalyzerMessage::global_mutable_variable
global_mutable_variable(span) ==
    Message("GlobalMutableVariables", "", span, span)

\* AnalyzerMessage::unresolved_identifier
unresolved_identifier(name, close_match, span) ==
    [Message("UnresolvedIdentifiers", name, span, span)
        EXCEPT !.close = close_match]

\* AnalyzerMessage::redeclared_const_variable
redeclared_const_variable(name, decl_span, span) ==
    Message("RedeclaredConstVariables", name, span, decl_span)

\* AnalyzerMessage::reassigned_immutable_variable
reassigned_immutable_variable(name, decl_span, span, was_const) ==
    [Message("ReassignedImmutableVariables", name, span, decl_span)
        EXCEPT !.was_const = was_const]

(***************************************************************************)
(* Context::exit_scope                                                     *)
(***************************************************************************)

\* the orders in which HashMap::into_values can yield the entries
Orders(scope) ==
    {o \in [1..Cardinality(scope) -> scope] :
        \A i, j \in 1..Cardinality(scope) : o[i] = o[j] => i = j}

EntryMutCheckAlways(an, entry) ==
    IF "UnnecessaryMutVariables" \in an /\ entry.modifier = "Mut"
    THEN <<unnecessary_mut_variable(entry.name, entry.span)>>
    ELSE <<>>

\* the first check of exit_scope's loop body
EntryMutCheck(an, entry) ==
    IF /\ "UnnecessaryMutVariables" \in an
       /\ entry.modifier = "Mut"
       /\ ~entry.mutated
    THEN <<unnecessary_mut_variable(entry.name, entry.span)>>
    ELSE <<>>

EntryUnusedCheckNoPrefix(an, entry) ==
    IF "UnusedVariables" \in an /\ ~entry.used
    THEN <<unused_variable(entry.name, entry.span)>>
    ELSE <<>>

\* the second check of exit_scope's loop body
EntryUnusedCheck(an, entry) ==
    IF /\ "UnusedVariables" \in an
       /\ ~entry.used
       /\ ~StartsWithUnderscore(entry.name)
    THEN <<unused_variable(entry.name, entry.span)>>
    ELSE <<>>

\* the messages exit_scope pushes for the entries taken in order o
RECURSIVE ExitMessages(_, _, _)
ExitMessages(an, o, i) ==
    IF i > Len(o) THEN <<>>
    ELSE EntryMutCheck(an, o[i]) \o EntryUnusedCheck(an, o[i])
            \o ExitMessages(an, o, i + 1)

\* Context::exit_scope: the states it can leave (scopes, messages), one per
\* iteration order of the popped scope
exit_scope(an, scs, msgs) ==
    {[scopes |-> SubSeq(scs, 1, Len(scs) - 1),
      messages |-> msgs \o ExitMessages(an, o, 1)] :
        o \in Orders(scs[Len(scs)])}

(***************************************************************************)
(* Syntax tree: targets, expressions, nodes                                *)
(***************************************************************************)

\* enum Target: Ident, Array, and the variants the walker has no arm for
TargetIdent(s) == [t |-> "Ident", name |-> s]
TargetArray(ts) == [t |-> "Array", targets |-> ts]
TargetOther == [t |-> "Other"]

\* enum Expr: Ident, the literals, UnaryExpr, BinaryExpr (If and While are
\* walked by the actions VisitIf .. EndWhile)
ExprIdent(s) == [e |-> "Ident", name |-> s]
ExprLiteral == [e |-> "Literal"]
UnaryExpr(v) == [e |-> "UnaryExpr", value |-> v]
BinaryExpr(l, r) == [e |-> "BinaryExpr", lhs |-> l, rhs |-> r]

\* Node::Declare and Node::Assign; the value is a literal unless it is given
Declare(targets, mut, const) ==
    [node |-> "Declare", targets |-> targets, mut |-> mut, const |-> const,
     value |-> ExprLiteral]
Assign(targets) ==
    [node |-> "Assign", targets |-> targets, value |-> ExprLiteral]
DeclareValue(targets, mut, const, value) ==
    [Declare(targets, mut, const) EXCEPT !.value = value]
AssignValue(targets, value) == [Assign(targets) EXCEPT !.value = value]

\* the identifiers a declaration target binds, in the order recur collects
\* them into `deferred`
RECURSIVE Leaves(_)
RECURSIVE LeavesOf(_, _)
Leaves(target) ==
    IF target.t = "Ident" THEN <<target.name>>
    ELSE IF target.t = "Array" THEN LeavesOf(target.targets, 1)
    ELSE <<>>
LeavesOf(ts, i) ==
    IF i > Len(ts) THEN <<>> ELSE Leaves(ts[i]) \o LeavesOf(ts, i + 1)

\* whether recur reaches its `_ => todo!()` arm
RECURSIVE ReachesTodo(_)
ReachesTodo(target) ==
    IF target.t = "Ident" THEN FALSE
    ELSE IF target.t = "Array"
    THEN \E i \in 1..Len(target.targets) : ReachesTodo(target.targets[i])
    ELSE TRUE

\* number of identifier expressions in an expression
RECURSIVE IdentCount(_)
IdentCount(e) ==
    IF e.e = "Ident" THEN 1
    ELSE IF e.e = "UnaryExpr" THEN IdentCount(e.value)
    ELSE IF e.e = "BinaryExpr" THEN IdentCount(e.lhs) + IdentCount(e.rhs)
    ELSE 0

(***************************************************************************)
(* Tree Walker: visit_expr and visit_node as functions of the state        *)
(***************************************************************************)

\* visit_expr, Expr::Ident arm; st = [scopes, messages, pos]
VisitIdent(name, st) ==
    LET p == st.pos + 1 IN
    IF lookup_var(st.scopes, name) # <<>>
    THEN {[scopes |-> UpdateVar(st.scopes, name, "used", TRUE),
           messages |-> st.messages, pos |-> p]}
    ELSE {[scopes |-> st.scopes,
           messages |-> Append(st.messages,
                            unresolved_identifier(name, c, NodeSpan(p))),
           pos |-> p] : c \in close_var_match(st.scopes, name)}

\* visit_expr on an expression without If/While: the states it can leave
RECURSIVE VisitExpr(_, _)
VisitExpr(e, st) ==
    IF e.e = "Ident" THEN VisitIdent(e.name, st)
    ELSE IF e.e = "UnaryExpr" THEN VisitExpr(e.value, st)
    ELSE IF e.e = "BinaryExpr"
    THEN UNION {VisitExpr(e.rhs, s1) : s1 \in VisitExpr(e.lhs, st)}
    ELSE {st}

\* the modifier a declaration's flags give; (true, true) is unreachable!()
Modifier(node) ==
    IF node.mut THEN "Mut" ELSE IF node.const THEN "Const" ELSE "None"

GlobalMutCheckAnyDepth(an, scs, node, span) ==
    IF "GlobalMutableVariables" \in an /\ Modifier(node) = "Mut"
    THEN <<global_mutable_variable(span)>>
    ELSE <<>>

\* visit_node, Declare: the global-mutable-variable check
GlobalMutCheck(an, scs, node, span) ==
    IF /\ "GlobalMutableVariables" \in an
       /\ is_top_level(scs)
       /\ Modifier(node) = "Mut"
    THEN <<global_mutable_variable(span)>>
    ELSE <<>>

RedeclCheckEnclosingOnly(scs, name, span) ==
    IF /\ LookupIndex(scs, name) \in 1..(Len(scs) - 1)
       /\ lookup_var(scs, name)[1].modifier = "Const"
    THEN <<redeclared_const_variable(name, lookup_var(scs, name)[1].span, span)>>
    ELSE <<>>

\* recur, Target::Ident arm: the const-redeclaration check
RedeclCheck(scs, name, span) ==
    IF lookup_var(scs, name) # <<>> /\ lookup_var(scs, name)[1].modifier = "Const"
    THEN <<redeclared_const_variable(name, lookup_var(scs, name)[1].span, span)>>
    ELSE <<>>

\* recur over the collected identifiers (the context is not changed
\* while recur runs)
RECURSIVE RecurMessages(_, _, _, _)
RecurMessages(scs, names, i, span) ==
    IF i > Len(names) THEN <<>>
    ELSE RedeclCheck(scs, names[i], span)
            \o RecurMessages(scs, names, i + 1, span)

\* the loop over `deferred`: the snake_case check, then store_var
RECURSIVE StoreDeferred(_, _, _, _, _, _, _)
StoreDeferred(an, scs, msgs, names, i, modifier, p) ==
    IF i > Len(names) THEN [scopes |-> scs, messages |-> msgs]
    ELSE LET name == names[i]
             snake == to_snake_case(name)
             m == IF "NonSnakeCase" \in an /\ Chars[name] # snake
                  THEN Append(msgs,
                          non_snake_case(name, snake, TargetSpan(p, i)))
                  ELSE msgs
         IN  StoreDeferred(an,
                 store_var(scs, name,
                     MockScopeEntry(name, modifier, NodeSpan(p))),
                 m, names, i + 1, modifier, p)

\* how a handler leaves the walker.  A fault (Err) makes run_analysis return
\* the error and drop the context and the message list; a panic ends the
\* process: neither leaves scopes or messages behind.
Outcome(scs, msgs, res) ==
    IF res = "running"
    THEN [scopes |-> scs, messages |-> msgs, result |-> res]
    ELSE [scopes |-> <<>>, messages |-> <<>>, result |-> res]

\* visit_node, Node::Declare, once targets.first() is Some and the flags
\* are not both set
DeclareFirstTarget(an, scs, msgs, node, p) ==
    LET target == node.targets[1]
        names == Leaves(target)
        stored ==
            StoreDeferred(an, scs,
                msgs \o GlobalMutCheck(an, scs, node, NodeSpan(p))
                     \o RecurMessages(scs, names, 1, NodeSpan(p)),
                names, 1, Modifier(node), p)
    IN  IF ReachesTodo(target) THEN Outcome(scs, msgs, "Panic")
        ELSE Outcome(stored.scopes, stored.messages, "running")

\* visit_node, Node::Declare
VisitDeclare(an, scs, msgs, node, p) ==
    IF node.targets = <<>> THEN Outcome(scs, msgs, "Err")
    ELSE IF node.mut /\ node.const THEN Outcome(scs, msgs, "Panic")
    ELSE DeclareFirstTarget(an, scs, msgs, node, p)

AssignResolvedNoFlag(scs, msgs, name, p) ==
    LET entry == lookup_var(scs, name)[1] IN
    Outcome(scs,
        IF entry.modifier = "Const" \/ entry.modifier # "Mut"
        THEN Append(msgs, reassigned_immutable_variable(
                        name, entry.span, NodeSpan(p),
                        entry.modifier = "Const"))
        ELSE msgs,
        "running")

\* visit_node, Node::Assign, Target::Ident, Some(entry) arm
AssignResolved(scs, msgs, name, p) ==
    LET entry == lookup_var(scs, name)[1] IN
    Outcome(UpdateVar(scs, name, "mutated", TRUE),
        IF entry.modifier = "Const" \/ entry.modifier # "Mut"
        THEN Append(msgs, reassigned_immutable_variable(
                        name, entry.span, NodeSpan(p),
                        entry.modifier = "Const"))
        ELSE msgs,
        "running")

AssignUnresolvedFault(scs, msgs, name, p) ==
    {Outcome(scs,
        Append(msgs, unresolved_identifier(name, c, TargetSpan(p, 1))),
        "Err") : c \in close_var_match(scs, name)}

\* visit_node, Node::Assign, Target::Ident, None arm
AssignUnresolved(scs, msgs, name, p) ==
    {Outcome(scs,
        Append(msgs, unresolved_identifier(name, c, TargetSpan(p, 1))),
        "running") : c \in close_var_match(scs, name)}

\* visit_node, Node::Assign, once targets.first() is Some
AssignFirstTarget(scs, msgs, node, p) ==
    LET target == node.targets[1] IN
    IF target.t = "Ident"
    THEN IF lookup_var(scs, target.name) # <<>>
         THEN {AssignResolved(scs, msgs, target.name, p)}
         ELSE AssignUnresolved(scs, msgs, target.name, p)
    ELSE IF target.t = "Array" THEN {Outcome(scs, msgs, "Err")}
    ELSE {Outcome(scs, msgs, "Panic")}

\* visit_node, Node::Assign: the outcomes it can have
VisitAssign(scs, msgs, node, p) ==
    IF node.targets = <<>> THEN {Outcome(scs, msgs, "Err")}
    ELSE AssignFirstTarget(scs, msgs, node, p)

(***************************************************************************)
(* Spec: run_analysis walking a module.  The tree is chosen node by node:  *)
(* each step hands the walker the next node of the body it is in, or ends  *)
(* that body.                                                              *)
(***************************************************************************)

\* most span-carrying nodes (declarations, assignments, identifier
\* expressions, and the if / else-if / while heads) in a walked module
MaxNodes == 4
\* deepest scope stack
MaxDepth == 2

Flags == {<<FALSE, FALSE>>, <<TRUE, FALSE>>, <<FALSE, TRUE>>}

DeclareNodes ==
    {Declare(<<TargetIdent("x")>>, f[1], f[2]) : f \in Flags}
    \cup {Declare(<<TargetIdent("_u")>>, FALSE, FALSE),
          Declare(<<TargetIdent("_u")>>, TRUE, FALSE),
          Declare(<<TargetIdent("_U")>>, FALSE, FALSE),
          Declare(<<TargetArray(<<TargetIdent("_U"), TargetIdent("x")>>)>>,
                  TRUE, FALSE),
          Declare(<<TargetIdent("x"), TargetIdent("_u")>>, TRUE, FALSE),
          Declare(<<>>, TRUE, FALSE),
          Declare(<<TargetIdent("x")>>, TRUE, TRUE),
          Declare(<<TargetOther>>, FALSE, FALSE),
          DeclareValue(<<TargetIdent("_u")>>, FALSE, FALSE, ExprIdent("x"))}

AssignNodes ==
    {Assign(<<TargetIdent("x")>>),
     Assign(<<TargetIdent("x"), TargetIdent("_u")>>),
     Assign(<<>>),
     Assign(<<TargetArray(<<TargetIdent("x")>>)>>),
     Assign(<<TargetOther>>),
     AssignValue(<<TargetIdent("x")>>, ExprIdent("x"))}

\* expression statements (a literal statement changes nothing)
ExprNodes ==
    {ExprIdent("x"), BinaryExpr(ExprIdent("x"), UnaryExpr(ExprIdent("_u")))}

\* conditions of if, else-if and while
Conditions == {ExprLiteral, ExprIdent("x")}

AnalyzerSets ==
    {all, none, from_disabled({"UnusedVariables", "GlobalMutableVariables"})}

\* Context::from_tokens, then run_analysis up to its visit_node call
Init ==
    /\ TypeIdle
    /\ MatchIdle
    /\ SetIdle
    /\ InferIdle
    /\ analyzers \in AnalyzerSets
    /\ scopes = <<MockScope>>
    /\ messages = <<>>
    /\ ctl = <<>>
    /\ pos = 0
    /\ result = "running"
    /\ last = NoNode

\* the body the walker is in
Top == IF ctl = <<>> THEN "module" ELSE ctl[Len(ctl)]

Running == result = "running"

Here == [scopes |-> scopes, messages |-> messages, pos |-> pos]

\* visit_node on a Node::Declare of the current body
StepDeclare ==
    \E node \in DeclareNodes :
        /\ Running /\ pos < MaxNodes
        /\ LET o == VisitDeclare(analyzers, scopes, messages, node, pos + 1)
           IN  /\ scopes' = o.scopes
               /\ messages' = o.messages
               /\ result' = o.result
        /\ pos' = pos + 1
        /\ last' = [node |-> "Declare", targets |-> node.targets,
                    mut |-> node.mut, const |-> node.const,
                    value |-> node.value, span |-> NodeSpan(pos + 1)]
        /\ UNCHANGED <<analyzers, ctl>>
        /\ UNCHANGED typeVars /\ UNCHANGED matchVars
        /\ UNCHANGED setVars /\ UNCHANGED inferVars

\* visit_node on a Node::Assign of the current body
StepAssign ==
    \E node \in AssignNodes :
        /\ Running /\ pos < MaxNodes
        /\ \E o \in VisitAssign(scopes, messages, node, pos + 1) :
               /\ scopes' = o.scopes
               /\ messages' = o.messages
               /\ result' = o.result
        /\ pos' = pos + 1
        /\ last' = [node |-> "Assign", targets |-> node.targets,
                    value |-> node.value, span |-> NodeSpan(pos + 1)]
        /\ UNCHANGED <<analyzers, ctl>>
        /\ UNCHANGED typeVars /\ UNCHANGED matchVars
        /\ UNCHANGED setVars /\ UNCHANGED inferVars

\* visit_node on a Node::Expr without If/While: visit_expr
StepExpr ==
    \E e \in ExprNodes :
        /\ Running /\ pos + IdentCount(e) <= MaxNodes
        /\ \E st \in VisitExpr(e, Here) :
               /\ scopes' = st.scopes
               /\ messages' = st.messages
               /\ pos' = st.pos
        /\ last' = [node |-> "Expr", expr |-> e]
        /\ UNCHANGED <<analyzers, ctl, result>>
        /\ UNCHANGED typeVars /\ UNCHANGED matchVars
        /\ UNCHANGED setVars /\ UNCHANGED inferVars

\* visit_node on any other Node: unimplemented!()
StepOtherNode ==
    /\ Running
    /\ LET o == Outcome(scopes, messages, "Panic")
       IN  /\ scopes' = o.scopes
           /\ messages' = o.messages
           /\ result' = o.result
    /\ last' = [node |-> "Other"]
    /\ UNCHANGED <<analyzers, ctl, pos>>
    /\ UNCHANGED typeVars /\ UNCHANGED matchVars
    /\ UNCHANGED setVars /\ UNCHANGED inferVars

\* visit_expr on Expr::If up to the first body: the condition is visited,
\* then enter_scope
VisitIf ==
    \E c \in Conditions :
        /\ Running /\ Len(scopes) < MaxDepth
        /\ pos + 1 + IdentCount(c) <= MaxNodes
        /\ \E st \in VisitExpr(c, [Here EXCEPT !.pos = pos + 1]) :
               /\ scopes' = enter_scope(st.scopes)
               /\ messages' = st.messages
               /\ pos' = st.pos
        /\ ctl' = Append(ctl, "branch")
        /\ last' = NoNode
        /\ UNCHANGED <<analyzers, result>>
        /\ UNCHANGED typeVars /\ UNCHANGED matchVars
        /\ UNCHANGED setVars /\ UNCHANGED inferVars

\* from the end of an if / else-if body to the body of the next else-if:
\* exit_scope, then the next condition is visited, then enter_scope
VisitElseIf ==
    \E c \in Conditions :
        /\ Running /\ Top = "branch"
        /\ pos + 1 + IdentCount(c) <= MaxNodes
        /\ \E o \in exit_scope(analyzers, scopes, messages) :
           \E st \in VisitExpr(c, [scopes |-> o.scopes,
                                   messages |-> o.messages,
                                   pos |-> pos + 1]) :
               /\ scopes' = enter_scope(st.scopes)
               /\ messages' = st.messages
               /\ pos' = st.pos
        /\ last' = NoNode
        /\ UNCHANGED <<analyzers, ctl, result>>
        /\ UNCHANGED typeVars /\ UNCHANGED matchVars
        /\ UNCHANGED setVars /\ UNCHANGED inferVars

\* from the end of the last if / else-if body into the else body:
\* exit_scope, then enter_scope
VisitElse ==
    /\ Running /\ Top = "branch"
    /\ \E o \in exit_scope(analyzers, scopes, messages) :
           /\ scopes' = enter_scope(o.scopes)
           /\ messages' = o.messages
    /\ ctl' = [ctl EXCEPT ![Len(ctl)] = "tail"]
    /\ last' = NoNode
    /\ UNCHANGED <<analyzers, pos, result>>
    /\ UNCHANGED typeVars /\ UNCHANGED matchVars
    /\ UNCHANGED setVars /\ UNCHANGED inferVars

\* the end of an if expression's last body (an if / else-if body with no
\* else after it, or the else body), or of a while body: exit_scope, and
\* visit_expr returns
EndBody ==
    /\ Running /\ Top \in {"branch", "tail"}
    /\ \E o \in exit_scope(analyzers, scopes, messages) :
           /\ scopes' = o.scopes
           /\ messages' = o.messages
    /\ ctl' = SubSeq(ctl, 1, Len(ctl) - 1)
    /\ last' = NoNode
    /\ UNCHANGED <<analyzers, pos, result>>
    /\ UNCHANGED typeVars /\ UNCHANGED matchVars
    /\ UNCHANGED setVars /\ UNCHANGED inferVars

\* visit_expr on Expr::While up to its body
VisitWhile ==
    \E c \in Conditions :
        /\ Running /\ Len(scopes) < MaxDepth
        /\ pos + 1 + IdentCount(c) <= MaxNodes
        /\ \E st \in VisitExpr(c, [Here EXCEPT !.pos = pos + 1]) :
               /\ scopes' = enter_scope(st.scopes)
               /\ messages' = st.messages
               /\ pos' = st.pos
        /\ ctl' = Append(ctl, "tail")
        /\ last' = NoNode
        /\ UNCHANGED <<analyzers, result>>
        /\ UNCHANGED typeVars /\ UNCHANGED matchVars
        /\ UNCHANGED setVars /\ UNCHANGED inferVars

\* the module's nodes are done: run_analysis pops the top-level scope and
\* returns Ok(messages)
Finish ==
    /\ Running /\ Top = "module"
    /\ \E o \in exit_scope(analyzers, scopes, messages) :
           /\ scopes' = o.scopes
           /\ messages' = o.messages
    /\ result' = "Ok"
    /\ last' = NoNode
    /\ UNCHANGED <<analyzers, ctl, pos>>
    /\ UNCHANGED typeVars /\ UNCHANGED matchVars
    /\ UNCHANGED setVars /\ UNCHANGED inferVars

Next ==
    \/ StepDeclare
    \/ StepAssign
    \/ StepExpr
    \/ StepOtherNode
    \/ VisitIf
    \/ VisitElseIf
    \/ VisitElse
    \/ EndBody
    \/ VisitWhile
    \/ Finish

Spec == Init /\ [][Next]_vars

(***************************************************************************)
(* Claims about the Scope Store and the Tree Walker, checked under Spec.   *)
(***************************************************************************)

\* the messages a step appends
NewMessages == SubSeq(messages', Len(messages) + 1, Len(messages'))

\* the steps that keep what was pushed before them
KeepsMessages == SubSeq(messages', 1, Len(messages)) = messages

\* how many messages of seq have this kind, name and primary span
CountOf(seq, kind, name, span) ==
    Cardinality({i \in 1..Len(seq) :
        seq[i].kind = kind /\ seq[i].name = name /\ seq[i].span = span})

CountKind(seq, kind) ==
    Cardinality({i \in 1..Len(seq) : seq[i].kind = kind})

\* the steps in which exit_scope runs (VisitElseIf, VisitElse, EndBody and
\* Finish: the steps of a running walk that visit no node and open no new
\* frame); it pops scopes[Len(scopes)]
ExitStep == Running /\ last' = NoNode /\ Len(ctl') <= Len(ctl)
DeclareStep == Running /\ last'.node = "Declare"
AssignStep == Running /\ last'.node = "Assign"
FinishStep == Running /\ result' = "Ok"
Popped == scopes[Len(scopes)]

\* C1: when exit_scope pops a scope (an if/else/while body's, or the
\* top-level scope at the end of run_analysis), each entry that is Mut and
\* not mutated gets exactly one unnecessary-mut diagnostic naming it if
\* UnnecessaryMutVariables is enabled, every other entry gets none, and no
\* other unnecessary-mut diagnostic is pushed.
C1_UnnecessaryMutAtExit ==
    [][ExitStep =>
        /\ KeepsMessages
        /\ \A e \in Popped :
              CountOf(NewMessages, "UnnecessaryMutVariables", e.name, e.span)
                = IF /\ "UnnecessaryMutVariables" \in analyzers
                     /\ e.modifier = "Mut"
                     /\ ~e.mutated
                  THEN 1 ELSE 0
        /\ \A i \in 1..Len(NewMessages) :
              NewMessages[i].kind = "UnnecessaryMutVariables"
                => \E e \in Popped : /\ e.name = NewMessages[i].name
                                     /\ e.span = NewMessages[i].span
                                     /\ e.span = NewMessages[i].first]_vars

\* an if body's scope was popped with a Mut entry `x` never assigned to, and
\* the diagnostic naming it is in the list
C1_Witness ==
    /\ result = "running"
    /\ ctl = <<>> /\ Len(scopes) = 1 /\ scopes[1] = {}
    /\ \E i \in 1..Len(messages) :
          /\ messages[i].kind = "UnnecessaryMutVariables"
          /\ messages[i].name = "x"

\* exit_scope's unused-variable rule, entry by entry
UnusedAtExit ==
    ExitStep =>
        /\ KeepsMessages
        /\ \A e \in Popped :
              CountOf(NewMessages, "UnusedVariables", e.name, e.span)
                = IF /\ "UnusedVariables" \in analyzers
                     /\ ~e.used
                     /\ Chars[e.name][1] # "_"
                  THEN 1 ELSE 0
        /\ \A i \in 1..Len(NewMessages) :
              NewMessages[i].kind = "UnusedVariables"
                => \E e \in Popped : /\ e.name = NewMessages[i].name
                                     /\ e.span = NewMessages[i].span

\* run_analysis returns from a module whose only node declares one
\* underscore-prefixed identifier
OnlyUnderscoreDeclare ==
    /\ FinishStep
    /\ pos = 1
    /\ last.node = "Declare"
    /\ Len(last.targets) = 1
    /\ last.targets[1].t = "Ident"
    /\ Chars[last.targets[1].name][1] = "_"

\* C2 (as stated): an entry popped by exit_scope gets an unused-variable
\* diagnostic iff UnusedVariables is enabled, the entry is not used and its
\* name does not start with "_"; a module that only declares an
\* underscore-prefixed name yields zero diagnostics.
C2_Original ==
    [][/\ UnusedAtExit
       /\ OnlyUnderscoreDeclare => messages' = <<>>]_vars

\* C2 (amended): the same rule for every popped entry; a module that only
\* declares, without mut, an underscore-prefixed name that is already
\* snake_case yields zero diagnostics.
C2_UnusedAtExit ==
    [][/\ UnusedAtExit
       /\ (/\ OnlyUnderscoreDeclare
           /\ ~last.mut
           /\ last.targets[1].name = "_u") => messages' = <<>>]_vars

\* `let _u` alone under the full analyzer set: Ok with no diagnostics
C2_Witness ==
    /\ result = "Ok"
    /\ pos = 1
    /\ analyzers = all
    /\ messages = <<>>

\* a declaration names a plain identifier y inside a nested scope while some
\* enclosing scope holds a Const entry named y
DeclaresOverOuterConst ==
    /\ DeclareStep
    /\ result' = "running"
    /\ Len(scopes) >= 2
    /\ Len(last'.targets) = 1
    /\ last'.targets[1].t = "Ident"
    /\ \E i \in 1..(Len(scopes) - 1) : \E e \in scopes[i] :
          e.name = last'.targets[1].name /\ e.modifier = "Const"

\* the entry a search from the innermost scope outwards finds for name y is
\* a Const entry of an enclosing scope
ResolvesToOuterConst(y, c) ==
    \E i \in 1..(Len(scopes) - 1) :
        /\ c \in scopes[i] /\ c.name = y /\ c.modifier = "Const"
        /\ \A j \in (i + 1)..Len(scopes) : \A e \in scopes[j] : e.name # y

\* one redeclared-const diagnostic whose first label is an enclosing Const
\* entry's span; the new entry goes to the innermost scope, the enclosing
\* scopes stay as they were
RedeclaredOuterConst(y) ==
    /\ KeepsMessages
    /\ CountKind(NewMessages, "RedeclaredConstVariables") = 1
    /\ \A i \in 1..Len(NewMessages) :
          NewMessages[i].kind = "RedeclaredConstVariables" =>
              /\ NewMessages[i].name = y
              /\ NewMessages[i].span = last'.span
              /\ \E k \in 1..(Len(scopes) - 1) : \E c \in scopes[k] :
                    /\ c.name = y /\ c.modifier = "Const"
                    /\ NewMessages[i].first = c.span
    /\ Len(scopes') = Len(scopes)
    /\ \A k \in 1..(Len(scopes) - 1) : scopes'[k] = scopes[k]
    /\ \E e \in scopes'[Len(scopes)] : e.name = y /\ e.span = last'.span

\* C3 (as stated): declaring a plain identifier y in a nested scope while an
\* enclosing scope holds a Const entry named y emits a redeclared-const
\* diagnostic whose first label is the outer Const entry's span, and stores
\* the new entry in the nested scope only.
C3_Original ==
    [][DeclaresOverOuterConst
         => RedeclaredOuterConst(last'.targets[1].name)]_vars

\* C3 (amended): the same, when the innermost entry named y that is visible
\* at the declaration is the enclosing scope's Const entry (no nearer scope,
\* the nested one included, holds an entry named y); the first label is
\* that entry's span.
C3_RedeclaredOuterConst ==
    [][\A c \in UNION {scopes[i] : i \in 1..Len(scopes)} :
          (/\ DeclaresOverOuterConst
           /\ ResolvesToOuterConst(last'.targets[1].name, c))
          => /\ RedeclaredOuterConst(last'.targets[1].name)
             /\ \A i \in 1..Len(NewMessages) :
                   NewMessages[i].kind = "RedeclaredConstVariables"
                     => NewMessages[i].first = c.span]_vars

\* `const x; if .. { let x` : the diagnostic is there, labelled with the
\* outer entry's span, and both entries are stored
C3_Witness ==
    /\ result = "running"
    /\ last.node = "Declare"
    /\ Len(scopes) = 2
    /\ \E c \in scopes[1] : \E e \in scopes[2] :
          /\ c.name = "x" /\ c.modifier = "Const"
          /\ e.name = "x" /\ e.span = last.span
          /\ messages # <<>>
          /\ messages[Len(messages)].kind = "RedeclaredConstVariables"
          /\ messages[Len(messages)].first = c.span

\* an assignment with one identifier target that no active scope declares
AssignsUndeclared ==
    /\ AssignStep
    /\ Len(last'.targets) = 1
    /\ last'.targets[1].t = "Ident"
    /\ \A i \in 1..Len(scopes) : \A e \in scopes[i] :
          e.name # last'.targets[1].name

\* C4: an assignment whose single identifier target is in no active scope
\* appends exactly one unresolved-identifier diagnostic for that name and
\* does not fault; the scope stack and every entry's flags stay as they
\* were; the walk goes on, and when run_analysis returns it returns Ok with
\* every diagnostic pushed so far.
C4_UnresolvedAssign ==
    [][/\ AssignsUndeclared =>
            /\ result' = "running"
            /\ scopes' = scopes
            /\ ctl' = ctl
            /\ KeepsMessages
            /\ Len(NewMessages) = 1
            /\ NewMessages[1].kind = "UnresolvedIdentifiers"
            /\ NewMessages[1].name = last'.targets[1].name
            /\ NewMessages[1].span = TargetSpan(pos', 1)
       /\ FinishStep => KeepsMessages /\ scopes' = <<>>]_vars

\* `x = ..` with no declaration of x, then the end of the module: Ok, and
\* the unresolved-identifier diagnostic is in the returned list
C4_Witness ==
    /\ result = "Ok"
    /\ pos = 1
    /\ messages # <<>>
    /\ messages[1].kind = "UnresolvedIdentifiers"
    /\ messages[1].span = TargetSpan(1, 1)

\* C5: visiting a declaration or an assignment that carries more than one
\* target is a fault (run_analysis returns Err).
C5_MultiTargetFault ==
    (last.node \in {"Declare", "Assign"} /\ Len(last.targets) > 1)
        => result = "Err"

\* C6: a declaration that visit_node accepts pushes exactly one
\* global-mutable-variable diagnostic, at the declaration's span, if
\* GlobalMutableVariables is enabled, the scope stack has depth 1 and the
\* declaration is mut, and none otherwise (nested, or not mut, or disabled);
\* no other step pushes one, and no later step removes it while the walk
\* goes on.
C6_GlobalMutable ==
    [][/\ (DeclareStep /\ result' = "running") =>
            /\ KeepsMessages
            /\ CountKind(NewMessages, "GlobalMutableVariables")
                 = IF /\ "GlobalMutableVariables" \in analyzers
                      /\ Len(scopes) = 1
                      /\ last'.mut
                   THEN 1 ELSE 0
            /\ \A i \in 1..Len(NewMessages) :
                  NewMessages[i].kind = "GlobalMutableVariables"
                    => NewMessages[i].span = last'.span
       /\ (~DeclareStep /\ result' \in {"running", "Ok"}) =>
            /\ KeepsMessages
            /\ CountKind(NewMessages, "GlobalMutableVariables") = 0]_vars

\* top-level `let mut x`, then `x = ..` and a read of x: the diagnostic of
\* the declaration is still the only global-mutable one when the run ends
C6_Witness ==
    /\ result = "Ok"
    /\ pos = 3
    /\ messages # <<>>
    /\ messages[1].kind = "GlobalMutableVariables"
    /\ messages[1].span = NodeSpan(1)
    /\ last = NoNode
    /\ Len(messages) = 1
    /\ CountKind(messages, "GlobalMutableVariables") = 1
    /\ CountKind(messages, "UnnecessaryMutVariables") = 0
    /\ CountKind(messages, "UnusedVariables") = 0

\* a declaration of one plain identifier that visit_node accepts
DeclaresIdent ==
    /\ DeclareStep
    /\ result' = "running"
    /\ Len(last'.targets) = 1
    /\ last'.targets[1].t = "Ident"

\* the innermost scope already holds a Const entry c named y
SameScopeConst(y, c) ==
    c \in scopes[Len(scopes)] /\ c.name = y /\ c.modifier = "Const"

\* the declaration replaces the innermost scope's entry named y and touches
\* nothing else
Overwrites(y) ==
    /\ Len(scopes') = Len(scopes)
    /\ \A k \in 1..(Len(scopes) - 1) : scopes'[k] = scopes[k]
    /\ {e \in scopes'[Len(scopes)] : e.name # y}
         = {e \in scopes[Len(scopes)] : e.name # y}
    /\ \A e \in scopes'[Len(scopes)] :
          e.name = y => /\ e.span = last'.span
                        /\ ~e.used /\ ~e.mutated
    /\ \E e \in scopes'[Len(scopes)] : e.name = y

\* C16 (as stated): redeclaring a name whose Const entry is in the same
\* (innermost) scope overwrites the entry and emits no const-redeclaration
\* diagnostic; that diagnostic is emitted only when a Const entry of the
\* name lives in an enclosing scope.
C16_Original ==
    [][DeclaresIdent =>
         LET y == last'.targets[1].name IN
         /\ \A c \in scopes[Len(scopes)] :
               SameScopeConst(y, c) =>
                   /\ Overwrites(y)
                   /\ CountKind(NewMessages, "RedeclaredConstVariables") = 0
         /\ CountKind(NewMessages, "RedeclaredConstVariables") > 0 =>
               \E k \in 1..(Len(scopes) - 1) : \E c \in scopes[k] :
                   c.name = y /\ c.modifier = "Const"]_vars

\* C16 (amended): redeclaring a name whose Const entry is in the same
\* (innermost) scope overwrites the entry and emits one const-redeclaration
\* diagnostic whose first label is the overwritten entry's span; in general
\* the diagnostic is emitted exactly when the innermost visible entry of
\* the name is Const, in the same scope or in an enclosing one.
C16_SameScopeConst ==
    [][DeclaresIdent =>
         LET y == last'.targets[1].name
             holders == {k \in 1..Len(scopes) :
                            \E e \in scopes[k] : e.name = y}
             nearest == CHOOSE k \in holders : \A j \in holders : j <= k
         IN
         /\ \A c \in scopes[Len(scopes)] :
               SameScopeConst(y, c) =>
                   /\ Overwrites(y)
                   /\ KeepsMessages
                   /\ CountOf(NewMessages, "RedeclaredConstVariables", y,
                              last'.span) = 1
                   /\ \A i \in 1..Len(NewMessages) :
                         NewMessages[i].kind = "RedeclaredConstVariables"
                            => NewMessages[i].first = c.span
         /\ CountKind(NewMessages, "RedeclaredConstVariables")
              = IF /\ holders # {}
                   /\ \E e \in scopes[nearest] :
                         e.name = y /\ e.modifier = "Const"
                THEN 1 ELSE 0]_vars

\* `const x; let x` at top level: the entry of x is the new one and the
\* diagnostic points back at the const declaration
C16_Witness ==
    /\ result = "running"
    /\ Len(scopes) = 1
    /\ pos = 2
    /\ last.node = "Declare" /\ ~last.const
    /\ \E e \in scopes[1] : e.name = "x" /\ e.span = NodeSpan(2)
                             /\ e.modifier # "Const"
    /\ Len(messages) >= 1
    /\ messages[Len(messages)].kind = "RedeclaredConstVariables"
    /\ messages[Len(messages)].first = NodeSpan(1)
    /\ messages[Len(messages)].span = NodeSpan(2)

\* an assignment with one identifier target that some active scope declares
AssignsDeclared ==
    /\ AssignStep
    /\ Len(last'.targets) = 1
    /\ last'.targets[1].t = "Ident"
    /\ \E k \in 1..Len(scopes) : \E e \in scopes[k] :
          e.name = last'.targets[1].name

\* C17: an assignment to an identifier that resolves to an entry sets that
\* entry's mutated flag and changes no other entry and no other flag; it
\* pushes exactly one reassigned-immutable-variable diagnostic when the
\* entry's modifier is Const or None (was_const exactly for Const, the
\* entry's declaration span as first label) and none when it is Mut.
C17_AssignResolved ==
    [][AssignsDeclared =>
         LET y == last'.targets[1].name
             holders == {k \in 1..Len(scopes) :
                            \E e \in scopes[k] : e.name = y}
             nearest == CHOOSE k \in holders : \A j \in holders : j <= k
             entry == CHOOSE e \in scopes[nearest] : e.name = y
         IN
         /\ result' = "running"
         /\ Len(scopes') = Len(scopes)
         /\ \A k \in 1..Len(scopes) :
               scopes'[k] = IF k = nearest
                            THEN (scopes[k] \ {entry})
                                   \cup {[entry EXCEPT !.mutated = TRUE]}
                            ELSE scopes[k]
         /\ KeepsMessages
         /\ Len(NewMessages) = IF entry.modifier = "Mut" THEN 0 ELSE 1
         /\ \A i \in 1..Len(NewMessages) :
               /\ NewMessages[i].kind = "ReassignedImmutableVariables"
               /\ NewMessages[i].name = y
               /\ NewMessages[i].first = entry.span
               /\ NewMessages[i].span = last'.span
               /\ NewMessages[i].was_const = (entry.modifier = "Const")]_vars

\* `const x; x = ..`: the entry is marked mutated and the diagnostic says
\* the variable was const and where it was declared
C17_Witness ==
    /\ result = "running"
    /\ last.node = "Assign"
    /\ pos = 2
    /\ Len(scopes) = 1
    /\ \E e \in scopes[1] :
          /\ e.name = "x" /\ e.modifier = "Const" /\ e.mutated /\ ~e.used
          /\ messages # <<>>
          /\ messages[Len(messages)].kind = "ReassignedImmutableVariables"
          /\ messages[Len(messages)].was_const
          /\ messages[Len(messages)].first = e.span

\* entry e of scope k is hidden by an entry of the same name in one of the
\* scopes k+1 .. top
Shadowed(k, e, top) ==
    \E j \in (k + 1)..top : \E f \in scopes[j] : f.name = e.name

\* scope k holds the innermost entry named n
Nearest(k, n) ==
    /\ \E e \in scopes[k] : e.name = n
    /\ \A j \in (k + 1)..Len(scopes) : \A e \in scopes[j] : e.name # n

\* C18: lookups resolve to the innermost scope that holds the name and
\* store_var writes to the innermost scope only.  Step by step: a step that
\* pops no scope leaves every shadowed entry as it is, a declaration
\* changes the innermost scope only, a reference or an assignment changes
\* only the innermost entry of its name; a step that pops the innermost
\* scope leaves the scopes below it exactly as they were, so an entry comes
\* out of a shadow with the modifier and flags it went in with.
C18_Shadowing ==
    [][(Running /\ result' \in {"running", "Ok"}) =>
         /\ ~ExitStep =>
               /\ Len(scopes') >= Len(scopes)
               /\ \A k \in 1..Len(scopes) : \A e \in scopes[k] :
                     /\ Shadowed(k, e, Len(scopes)) => e \in scopes'[k]
                     /\ e \notin scopes'[k] =>
                           \/ DeclareStep /\ k = Len(scopes)
                           \/ ~DeclareStep /\ Nearest(k, e.name)
               /\ DeclareStep =>
                     \A k \in 1..(Len(scopes) - 1) : scopes'[k] = scopes[k]
         /\ (ExitStep /\ Len(scopes') < Len(scopes)) =>
               scopes' = SubSeq(scopes, 1, Len(scopes) - 1)
         /\ (ExitStep /\ Len(scopes') = Len(scopes)) =>
               /\ scopes'[Len(scopes)] = {}
               /\ \A k \in 1..(Len(scopes) - 1) : \A e \in scopes[k] :
                     /\ Shadowed(k, e, Len(scopes) - 1) => e \in scopes'[k]
                     /\ \E f \in scopes'[k] :
                           /\ f.name = e.name /\ f.modifier = e.modifier
                           /\ f.span = e.span /\ f.mutated = e.mutated
                           /\ e.used => f.used]_vars

\* `let x; if .. { let mut x; x = ..`: the inner entry is marked mutated,
\* the outer one is as it was declared
C18_Witness ==
    /\ result = "running"
    /\ last.node = "Assign"
    /\ Len(scopes) = 2
    /\ \E o \in scopes[1] : \E i \in scopes[2] :
          /\ o.name = "x" /\ i.name = "x"
          /\ o.modifier = "None" /\ ~o.mutated /\ ~o.used
          /\ i.modifier = "Mut" /\ i.mutated

\* C20: every diagnostic run_analysis returns has a kind that is in the
\* analyzer set it was called with; with AnalyzerSet::none() the returned
\* list is empty.
C20_OnlyEnabledKinds ==
    result = "Ok" =>
        /\ \A i \in 1..Len(messages) : messages[i].kind \in analyzers
        /\ analyzers = none => messages = <<>>

\* C21: while the walk runs the scope stack holds the module's scope and
\* one scope for every if / else-if / else / while body the walker is in,
\* so its depth is at least 1, and it is back at its old depth when the
\* walker leaves an if or while expression; a node is visited without a
\* change of depth, a node of the module at depth exactly 1; entering a body
\* pushes exactly one scope, leaving it pops exactly one; run_analysis
\* returns Ok with an empty stack, after popping the module's scope.
C21_ScopeBalance ==
    /\ [](Running => Len(scopes) = Len(ctl) + 1)
    /\ [](result = "Ok" => scopes = <<>>)
    /\ [][Running =>
            /\ (last' # NoNode /\ ctl = <<>>) => Len(scopes) = 1
            /\ (last' # NoNode /\ result' = "running") =>
                  Len(scopes') = Len(scopes)
            /\ (result' = "running" /\ Len(ctl') = Len(ctl) + 1) =>
                  Len(scopes') = Len(scopes) + 1
            /\ (result' = "running" /\ Len(ctl') = Len(ctl) - 1) =>
                  Len(scopes') = Len(scopes) - 1
            /\ (result' = "running" /\ Len(ctl') = Len(ctl)) =>
                  Len(scopes') = Len(scopes)
            /\ FinishStep => Len(scopes) = 1 /\ scopes' = <<>>]_vars

\* `if .. { let x; }` at the top level has been left: the walker is back in
\* the module at depth 1, and the body's scope reported x at its exit
C21_Witness ==
    /\ Running
    /\ ctl = <<>>
    /\ last = NoNode
    /\ pos = 2
    /\ Len(scopes) = 1
    /\ scopes[1] = MockScope
    /\ \E i \in 1..Len(messages) :
          /\ messages[i].kind = "UnusedVariables"
          /\ messages[i].span = NodeSpan(2)

\* the names of the identifier expressions in an expression
RECURSIVE Idents(_)
Idents(e) ==
    IF e.e = "Ident" THEN {e.name}
    ELSE IF e.e = "UnaryExpr" THEN Idents(e.value)
    ELSE IF e.e = "BinaryExpr" THEN Idents(e.lhs) \cup Idents(e.rhs)
    ELSE {}

\* the names the node of this step refers to: in an expression statement,
\* or in the value of a declaration or an assignment
ReferencedNames ==
    IF last'.node = "Expr" THEN Idents(last'.expr)
    ELSE IF last'.node \in {"Declare", "Assign"} THEN Idents(last'.value)
    ELSE {}

\* C22: a node that refers to a name in scope (in an expression statement,
\* in the value of a declaration or in the value of an assignment) leaves
\* the entry the name resolves to marked used, and an entry that is marked
\* used gets no unused-variable diagnostic when its scope is popped.
C22_ReferencedIsUsed ==
    [][/\ (Running /\ result' = "running") =>
             \A n \in ReferencedNames :
                LET k == LookupIndex(scopes, n) IN
                k # 0 => \E e \in scopes'[k] : e.name = n /\ e.used
       /\ (ExitStep \/ FinishStep) =>
             \A e \in Popped :
                e.used =>
                   \A i \in 1..Len(NewMessages) :
                      ~(/\ NewMessages[i].kind = "UnusedVariables"
                        /\ NewMessages[i].span = e.span)]_vars

\* C23: run_analysis is deterministic.  The returned list only grows, so
\* two runs on one tree return the same list only if every call the walker
\* can make next has one outcome: from every state of a walk, exit_scope
\* leaves one message list whatever order the popped scope's entries come
\* in, and close_var_match has one result for every name that is in no
\* scope.
C23_Deterministic ==
    Running =>
        /\ Cardinality(exit_scope(analyzers, scopes, messages)) = 1
        /\ \A n \in WalkNames :
              lookup_var(scopes, n) = <<>> =>
                 Cardinality(close_var_match(scopes, n)) = 1

(***************************************************************************)
(* MatchSpec: one call of Context::close_var_match per behaviour, on a     *)
(* scope stack of up to MaxMatchDepth scopes over MatchNames.              *)
(***************************************************************************)
MaxMatchDepth == 2

\* the place of a name in a scope's declarations
NameIndex(n) ==
    CASE n = "x" -> 1
      [] n = "_u" -> 2
      [] n = "calculate_total" -> 3
      [] n = "calculate_totals" -> 4
      [] OTHER -> 5

\* a scope holding declarations of these names; the entry of name n in the
\* i-th scope has its own span
ScopeOf(i, ns) ==
    {MockScopeEntry(n, "Immut", <<i, NameIndex(n)>>) : n \in ns}

MatchStacks ==
    UNION {[1..d -> SUBSET MatchNames] : d \in 1..MaxMatchDepth}

MatchInit ==
    /\ \E st \in MatchStacks :
          scopes = [i \in DOMAIN st |-> ScopeOf(i, st[i])]
    /\ mq \in MatchNames
    /\ mres = <<>>
    /\ mphase = "ready"
    /\ analyzers = {}
    /\ messages = <<>>
    /\ ctl = <<>>
    /\ pos = 0
    /\ result = "idle"
    /\ last = NoNode
    /\ TypeIdle
    /\ SetIdle
    /\ InferIdle

\* ctx.close_var_match(mq)
CallCloseVarMatch ==
    /\ mphase = "ready"
    /\ mres' \in close_var_match(scopes, mq)
    /\ mphase' = "done"
    /\ UNCHANGED <<mq>>
    /\ UNCHANGED walkVars /\ UNCHANGED typeVars
    /\ UNCHANGED setVars /\ UNCHANGED inferVars

MatchNext == CallCloseVarMatch

MatchSpec == MatchInit /\ [][MatchNext]_vars

\* max(2, round(0.14 * length(q))), with the rounding spelled out: the
\* integer k with k - 1/2 <= 0.14 * length(q) < k + 1/2
ClaimedThreshold(q) ==
    LET n == Len(Chars[q])
        k == CHOOSE r \in 0..n : 100 * r - 50 <= 14 * n /\ 14 * n < 100 * r + 50
    IN  IF k > 2 THEN k ELSE 2

\* the entries of scope i whose name is within the threshold of the query
Candidates(i) ==
    {e \in scopes[i] : Distance[mq, e.name] <= ClaimedThreshold(mq)}

\* C10: close_var_match(q) returns a candidate iff some entry of some active
\* scope has a name within Levenshtein distance max(2, round(0.14 * |q|))
\* of q, and the name and span returned are those of such an entry of the
\* innermost scope that holds one.
C10_CloseVarMatch ==
    mphase = "done" =>
        /\ mres # <<>> <=> \E i \in 1..Len(scopes) : Candidates(i) # {}
        /\ mres # <<>> =>
              \E i \in 1..Len(scopes) :
                  /\ \E e \in Candidates(i) : mres = <<e.name, e.span>>
                  /\ \A j \in (i + 1)..Len(scopes) : Candidates(j) = {}

\* the 15-character query calculate_total (threshold 2) matched
\* calculate_totals, at distance 1, in the inner scope, although the outer
\* scope declares calculate_total itself
C10_Witness ==
    /\ mphase = "done"
    /\ mq = "calculate_total"
    /\ Len(Chars[mq]) = 15
    /\ ClaimedThreshold(mq) = 2
    /\ Distance[mq, "calculate_totals"] = 1
    /\ Len(scopes) = 2
    /\ \E e \in scopes[1] : e.name = "calculate_total"
    /\ mres = <<"calculate_totals", <<2, 4>>>>

(***************************************************************************)
(* SetSpec: one call of an AnalyzerSet constructor per behaviour, on sets  *)
(* of at most MaxSetSize categories; the set built is kept in analyzers.   *)
(***************************************************************************)
MaxSetSize == 2

KindSets == {S \in SUBSET AnalyzerKind : Cardinality(S) <= MaxSetSize}

SetInit ==
    /\ sAllowed \in KindSets
    /\ sDisabled \in KindSets
    /\ sCall = "ready"
    /\ analyzers = {}
    /\ scopes = <<>>
    /\ messages = <<>>
    /\ ctl = <<>>
    /\ pos = 0
    /\ result = "idle"
    /\ last = NoNode
    /\ TypeIdle
    /\ MatchIdle
    /\ InferIdle

\* the call's frame: everything but the set that is built
SetCall(name) ==
    /\ sCall = "ready"
    /\ sCall' = name
    /\ UNCHANGED <<sAllowed, sDisabled>>
    /\ UNCHANGED <<scopes, messages, ctl, pos, result, last>>
    /\ UNCHANGED typeVars /\ UNCHANGED matchVars /\ UNCHANGED inferVars

\* AnalyzerSet::all()
CallAll == SetCall("all") /\ analyzers' = all

\* AnalyzerSet::none()
CallNone == SetCall("none") /\ analyzers' = none

\* AnalyzerSet::from_disabled(&sDisabled)
CallFromDisabled ==
    SetCall("from_disabled") /\ analyzers' = from_disabled(sDisabled)

\* AnalyzerSet::from_allowed_disabled(&sAllowed, &sDisabled)
CallFromAllowedDisabled ==
    /\ SetCall("from_allowed_disabled")
    /\ analyzers' = from_allowed_disabled(sAllowed, sDisabled)

SetNext ==
    \/ CallAll
    \/ CallNone
    \/ CallFromDisabled
    \/ CallFromAllowedDisabled

SetSpec == SetInit /\ [][SetNext]_vars

\* C11: all() holds every AnalyzerKind and none() holds none; from_disabled(d)
\* is all() minus d; a category is in from_allowed_disabled(allowed,
\* disabled) iff it is in all() or allowed, and not in disabled, so a
\* category named in both is not enabled.
C11_AnalyzerSetConstructors ==
    /\ sCall = "all" => \A k \in AnalyzerKind : k \in analyzers
    /\ sCall = "none" => \A k \in AnalyzerKind : k \notin analyzers
    /\ sCall = "from_disabled" =>
          \A k \in AnalyzerKind : k \in analyzers <=> k \notin sDisabled
    /\ sCall = "from_allowed_disabled" =>
          /\ \A k \in AnalyzerKind :
                k \in analyzers <=>
                    (k \in AnalyzerKind \cup sAllowed /\ k \notin sDisabled)
          /\ \A k \in sAllowed \cap sDisabled : k \notin analyzers
    /\ sCall # "ready" => analyzers \subseteq AnalyzerKind

\* from_allowed_disabled was called with a category in both sets: it is left
\* out, the other allowed category is in
C11_Witness ==
    /\ sCall = "from_allowed_disabled"
    /\ sAllowed = {"NonAscii", "UnusedVariables"}
    /\ sDisabled = {"NonAscii"}
    /\ "NonAscii" \notin analyzers
    /\ "UnusedVariables" \in analyzers

(***************************************************************************)
(* InferSpec: one call of infer_type per behaviour, on an expression tree  *)
(* built from the four literals and unary and binary operator              *)
(* applications, with a message list that may already hold a message.      *)
(***************************************************************************)

\* at most this many operator applications in the expression
MaxExprOps == 2

\* the operators the expressions are built from
InferOps == {"Not", "Sub", "BitNot", "Add", "Lt"}

\* impl Display for PrimitiveType
PrimitiveToString(p) ==
    CASE p = "Int" -> "int"
      [] p = "Float" -> "float"
      [] p = "String" -> "string"
      [] p = "Bool" -> "bool"

Digit(d) ==
    CASE d = 0 -> "0" [] d = 1 -> "1" [] d = 2 -> "2" [] d = 3 -> "3"
      [] d = 4 -> "4" [] d = 5 -> "5" [] d = 6 -> "6" [] d = 7 -> "7"
      [] d = 8 -> "8" [] d = 9 -> "9"

\* u32::to_string, by long division of the two halves by ten
RECURSIVE U32ToString(_)
U32ToString(n) ==
    LET low == (n.hi % 10) * Half + n.lo
        q == U32(n.hi \div 10, low \div 10)
    IN  IF q = U32(0, 0) THEN Digit(low % 10)
        ELSE U32ToString(q) \o Digit(low % 10)

\* impl Display for Type
RECURSIVE TypeToString(_)
RECURSIVE JoinTypes(_)
JoinTypes(items) ==
    IF items = <<>> THEN ""
    ELSE IF Len(items) = 1 THEN TypeToString(items[1])
    ELSE TypeToString(items[1]) \o ", " \o JoinTypes(Tail(items))

TypeToString(t) ==
    CASE t.k = "Primitive" -> PrimitiveToString(t.p)
      [] t.k = "Union" ->
            IF t.a = Null THEN "?" \o TypeToString(t.b)
            ELSE IF t.b = Null THEN "?" \o TypeToString(t.a)
            ELSE TypeToString(t.a) \o " | " \o TypeToString(t.b)
      [] t.k = "And" -> TypeToString(t.a) \o " & " \o TypeToString(t.b)
      [] t.k = "Array" ->
            TypeToString(t.elem) \o "["
                \o (IF t.len = <<>> THEN "" ELSE U32ToString(t.len[1]))
                \o "]"
      [] t.k = "Tuple" -> "[" \o JoinTypes(t.items) \o "]"
      [] t.k = "Func" ->
            "(" \o JoinTypes(t.params) \o ") -> " \o TypeToString(t.ret)
      [] t.k = "Null" -> "null"
      [] t.k = "Any" -> "any"
      [] t.k = "Deferred" -> "<unknown>"
      [] t.k = "Unknown" -> "<unknown>"

\* An unsupported-operator message: its kind, its primary span, the
\* operator, and its labels as <<span, type text>> in label order, the
\* operator's label last.
unsupported_unary_operator_at_value(span, val_ty, val_span, op, op_span) ==
    [kind |-> "UnsupportedOperators", span |-> val_span, op |-> op,
     labels |-> <<<<val_span, val_ty>>, <<op_span, val_ty>>>>]

\* AnalyzerMessage::unsupported_unary_operator
unsupported_unary_operator(span, val_ty, val_span, op, op_span) ==
    [kind |-> "UnsupportedOperators", span |-> span, op |-> op,
     labels |-> <<<<val_span, val_ty>>, <<op_span, val_ty>>>>]

\* AnalyzerMessage::unsupported_binary_operator
unsupported_binary_operator(span, lhs_ty, lhs_span, rhs_ty, rhs_span, op, op_span) ==
    [kind |-> "UnsupportedOperators", span |-> span, op |-> op,
     labels |-> <<<<lhs_span, lhs_ty>>, <<rhs_span, rhs_ty>>,
                  <<op_span, lhs_ty, rhs_ty>>>>]

\* enum Expr with its operators, the variants infer_type has complete arms
\* for
ExprInteger == [e |-> "Integer"]
ExprFloat == [e |-> "Float"]
ExprString == [e |-> "String"]
ExprBool == [e |-> "Bool"]
UnaryExprOf(operator, value) ==
    [e |-> "UnaryExpr", operator |-> operator, value |-> value]
BinaryExprOf(operator, lhs, rhs) ==
    [e |-> "BinaryExpr", operator |-> operator, lhs |-> lhs, rhs |-> rhs]

\* Spanned<T>: the span of a node is its position in the tree, the path
\* from the root; an operator is child 0, value and lhs child 1, rhs child 2
RootSpan == <<>>
OperatorSpan(span) == Append(span, 0)
ValueSpan(span) == Append(span, 1)
LhsSpan(span) == Append(span, 1)
RhsSpan(span) == Append(span, 2)

\* Result<Type, &'static str> together with the message list the call
\* leaves behind
InferOk(ty, msgs) == [ok |-> TRUE, ty |-> ty, messages |-> msgs]

\* infer_type(ctx, messages, expr); `?` hands an Err of an operand on
RECURSIVE infer_type(_, _, _)
infer_type(msgs, expr, span) ==
    CASE expr.e = "Integer" -> InferOk(Primitive("Int"), msgs)
      [] expr.e = "Float" -> InferOk(Primitive("Float"), msgs)
      [] expr.e = "String" -> InferOk(Primitive("String"), msgs)
      [] expr.e = "Bool" -> InferOk(Primitive("Bool"), msgs)
      [] expr.e = "UnaryExpr" ->
            LET op == expr.operator
                t == infer_type(msgs, expr.value, ValueSpan(span))
            IN  IF ~t.ok THEN t
                ELSE LET out == UnaryOutcome(t.ty, op) IN
                     IF out # Unsupported THEN InferOk(out, t.messages)
                     ELSE InferOk(Unknown,
                            Append(t.messages,
                                unsupported_unary_operator(
                                    span, TypeToString(t.ty),
                                    ValueSpan(span), op,
                                    OperatorSpan(span))))
      [] expr.e = "BinaryExpr" ->
            LET op == expr.operator
                lhs_t == infer_type(msgs, expr.lhs, LhsSpan(span))
            IN  IF ~lhs_t.ok THEN lhs_t
                ELSE LET rhs_t == infer_type(lhs_t.messages, expr.rhs,
                                             RhsSpan(span))
                     IN
                     IF ~rhs_t.ok THEN rhs_t
                     ELSE LET out == BinaryOutcome(lhs_t.ty, op, rhs_t.ty)
                          IN
                          IF out # Unsupported
                          THEN InferOk(out, rhs_t.messages)
                          ELSE InferOk(Unknown,
                                 Append(rhs_t.messages,
                                     unsupported_binary_operator(
                                         span, TypeToString(lhs_t.ty),
                                         LhsSpan(span),
                                         TypeToString(rhs_t.ty),
                                         RhsSpan(span), op,
                                         OperatorSpan(span))))

InferLiterals == {ExprInteger, ExprFloat, ExprString, ExprBool}

\* the tree shapes with exactly n operator applications
Leaf == [s |-> "Leaf"]
RECURSIVE ShapesOf(_)
ShapesOf(n) ==
    IF n = 0 THEN {Leaf}
    ELSE {[s |-> "Unary", v |-> v] : v \in ShapesOf(n - 1)}
         \cup UNION {{[s |-> "Binary", l |-> l, r |-> r] :
                        l \in ShapesOf(i), r \in ShapesOf(n - 1 - i)} :
                     i \in 0..(n - 1)}

Shapes == UNION {ShapesOf(n) : n \in 0..MaxExprOps}

RECURSIVE OpsIn(_)
OpsIn(sh) ==
    CASE sh.s = "Leaf" -> 0
      [] sh.s = "Unary" -> 1 + OpsIn(sh.v)
      [] sh.s = "Binary" -> 1 + OpsIn(sh.l) + OpsIn(sh.r)

RECURSIVE LeavesIn(_)
LeavesIn(sh) ==
    CASE sh.s = "Leaf" -> 1
      [] sh.s = "Unary" -> LeavesIn(sh.v)
      [] sh.s = "Binary" -> LeavesIn(sh.l) + LeavesIn(sh.r)

\* the expression of shape sh whose literals are ls[li], ls[li + 1], .. and
\* whose operators are os[oi], os[oi + 1], .., both in prefix order
RECURSIVE Fill(_, _, _, _, _)
Fill(sh, ls, os, li, oi) ==
    CASE sh.s = "Leaf" -> ls[li]
      [] sh.s = "Unary" ->
            UnaryExprOf(os[oi], Fill(sh.v, ls, os, li, oi + 1))
      [] sh.s = "Binary" ->
            BinaryExprOf(os[oi],
                Fill(sh.l, ls, os, li, oi + 1),
                Fill(sh.r, ls, os, li + LeavesIn(sh.l),
                     oi + 1 + OpsIn(sh.l)))

\* a message that is in the list before the call
PriorMessage == unresolved_identifier("x", <<>>, <<9>>)

InferInit ==
    /\ \E sh \in Shapes :
          \E ls \in [1..LeavesIn(sh) -> InferLiterals] :
             \E os \in [1..OpsIn(sh) -> InferOps] :
                iExpr = Fill(sh, ls, os, 1, 1)
    /\ iTy = NoType
    /\ iPhase = "ready"
    /\ messages \in {<<>>, <<PriorMessage>>}
    /\ analyzers = {}
    /\ scopes = <<>>
    /\ ctl = <<>>
    /\ pos = 0
    /\ result = "idle"
    /\ last = NoNode
    /\ TypeIdle
    /\ MatchIdle
    /\ SetIdle

\* infer_type(&ctx, &mut messages, &iExpr)
CallInferType ==
    /\ iPhase = "ready"
    /\ LET r == infer_type(messages, iExpr, RootSpan) IN
          /\ iPhase' = IF r.ok THEN "Ok" ELSE "Err"
          /\ iTy' = IF r.ok THEN r.ty ELSE NoType
          /\ messages' = r.messages
    /\ UNCHANGED iExpr
    /\ UNCHANGED <<analyzers, scopes, ctl, pos, result, last>>
    /\ UNCHANGED typeVars /\ UNCHANGED matchVars /\ UNCHANGED setVars

InferNext == CallInferType

InferSpec == InferInit /\ [][InferNext]_vars

\* the type an expression has when every unsupported application counts
\* as Unknown
RECURSIVE Typing(_)
\* the Type Model's outcome for the operator application at the root of e
Applied(e) ==
    IF e.e = "UnaryExpr" THEN UnaryOutcome(Typing(e.value), e.operator)
    ELSE BinaryOutcome(Typing(e.lhs), e.operator, Typing(e.rhs))

Typing(e) ==
    IF e.e \in {"UnaryExpr", "BinaryExpr"}
    THEN IF Supported(Applied(e)) THEN Applied(e) ELSE Unknown
    ELSE CASE e.e = "Integer" -> Primitive("Int")
           [] e.e = "Float" -> Primitive("Float")
           [] e.e = "String" -> Primitive("String")
           [] e.e = "Bool" -> Primitive("Bool")

\* the operator applications of e, each with its span
RECURSIVE Applications(_, _)
Applications(e, span) ==
    CASE e.e = "UnaryExpr" ->
            {<<span, e>>} \cup Applications(e.value, ValueSpan(span))
      [] e.e = "BinaryExpr" ->
            {<<span, e>>} \cup Applications(e.lhs, LhsSpan(span))
                          \cup Applications(e.rhs, RhsSpan(span))
      [] OTHER -> {}

\* the unsupported-operator messages at a span among those the call added
AddedAt(span) ==
    {i \in (Len(messages) + 1)..Len(messages') :
        /\ messages'[i].kind = "UnsupportedOperators"
        /\ messages'[i].span = span}

\* C19: infer_type returns Ok; the messages it adds are appended to the
\* list; for every operator application in the expression (the root and
\* the ones below it) it adds exactly one unsupported-operator message at
\* that application's span when the Type Model reports the operand types as
\* unsupported and none when it reports an outcome, and it adds nothing
\* else; the type of an unsupported root is Unknown, and the type of a
\* supported one is the Type Model's outcome.
C19_InferUnsupported ==
    [][(iPhase = "ready" /\ iPhase' # "ready") =>
         /\ iPhase' = "Ok"
         /\ Len(messages') >= Len(messages)
         /\ SubSeq(messages', 1, Len(messages)) = messages
         /\ \A a \in Applications(iExpr, RootSpan) :
               Cardinality(AddedAt(a[1])) =
                   IF Supported(Applied(a[2])) THEN 0 ELSE 1
         /\ Len(messages') - Len(messages) =
               Cardinality({a \in Applications(iExpr, RootSpan) :
                               ~Supported(Applied(a[2]))})
         /\ iExpr.e \in {"UnaryExpr", "BinaryExpr"} =>
               iTy' = IF Supported(Applied(iExpr)) THEN Applied(iExpr)
                      ELSE Unknown]_vars

\* -(1 < "s") after a call on a list that held a message: the comparison
\* is unsupported, the negation of Unknown is not
C19_Witness ==
    /\ iPhase = "Ok"
    /\ iExpr = UnaryExprOf("Sub",
                          BinaryExprOf("Lt", ExprInteger, ExprString))
    /\ iTy = Unknown
    /\ Len(messages) = 2
    /\ messages[1] = PriorMessage
    /\ messages[2].kind = "UnsupportedOperators"
    /\ messages[2].span = ValueSpan(RootSpan)
    /\ messages[2].labels[1] = <<LhsSpan(ValueSpan(RootSpan)), "int">>
    /\ messages[2].labels[2] = <<RhsSpan(ValueSpan(RootSpan)), "string">>

====
